---- MODULE Spec2Model ----
(***************************************************************************)
(* A model of ps1-benchmark (src/main.c): the double-buffered render       *)
(* context (setup_context, new_primitive, draw_text, flip_buffers), the    *)
(* CD stream read scheduler (setup_stream, feed_stream, cd_read_handler)   *)
(* and the menu / audio-test state machine that drives them from the main  *)
(* loop.                                                                   *)
(*                                                                         *)
(* Every C function is an operator from a program state (a record with one *)
(* field per variable below) to the program state after the call; an       *)
(* action applies the operators of one handler in the order of the code.   *)
(***************************************************************************)
EXTENDS Integers, Sequences, FiniteSets, TLC

VARIABLES
    \* RenderContext (main.c:77-81) and the two RenderBuffers (main.c:69-75)
    active_buffer,      \* ctx->active_buffer
    next_packet,        \* ctx->next_packet, as [buf, off]: &buffers[buf].buffer[off]
    ot,                 \* ot[b][z]: the primitives linked after buffers[b].ot[z], first linked first
    \* GPU and display, driven by DrawOTagEnv / PutDispEnv / DrawSync
    gpu_busy,           \* a chain handed to DrawOTagEnv is still being consumed
    gpu_chain,          \* the buffer whose chain was last handed to DrawOTagEnv (NoBuf: none)
    gpu_start,          \* the index of the ordering table entry DrawOTagEnv was given
    draw_target,        \* the buffer whose draw_env the GPU draws into (NoBuf: none)
    disp_region,        \* the buffer whose disp_env is visible (NoBuf: none)
    \* control
    pc,                 \* position of main(): load steps, the three steps of a frame, abort, hang
                        \* ("render" / "feed": a caller of the render context / the scheduler alone)
    load_i,             \* i of the loop of LoadAudioTracks
    frame,              \* the number of turns of the main loop begun (polls made, under SpecFeed)
    \* menu / mode state machine
    curMode, curMenuChoice, isInMenu, useTexture, lastButtons,
    \* audio test state
    currentTrackIndex, loadedTracks, pausedTracks, sampleRate,
    read_ctx,           \* read_ctx[0..MAX_SONGS-1] and, at index MAX_SONGS, masterReadCtx
    stream_ctx,         \* stream_ctx[0..MAX_SONGS-1] and, at index MAX_SONGS, masterStreamCtx
    buffering,          \* the value the last feed_stream call returned
    \* the stream library's playback state and the CD drive
    active_ctx,         \* the stream context being played (NoCtx: stopped)
    cd_reads,           \* the reads handed to CdRead and not yet completed, oldest first
    disc,               \* the files on the disc: disc[i] is TRACK-(i+1).VAG or NoFile
    \* history variables (not program state)
    op,                 \* the last operation that ran
    requested,          \* bytes asked of the arena since the last flip
    wrote_outside,      \* a byte at or beyond buffer[BUFFER_LENGTH] of the active buffer was written
    ot_outside          \* an entry outside ot[0 .. OT_LENGTH-1] was linked to

vars == << active_buffer, next_packet, ot, gpu_busy, gpu_chain, gpu_start, draw_target,
           disp_region, pc, load_i, frame, curMode, curMenuChoice, isInMenu,
           useTexture, lastButtons, currentTrackIndex, loadedTracks,
           pausedTracks, sampleRate, read_ctx, stream_ctx, buffering,
           active_ctx, cd_reads, disc, op, requested, wrote_outside, ot_outside >>

----
\* Program constants

RAM_BUFFER_SIZE == 98304
REFILL_THRESHOLD == 24
NUM_RECTANGLES == 100
MAX_SONGS == 4
OT_LENGTH == NUM_RECTANGLES + 1
BUFFER_LENGTH == 8192
START_TRACK == 0
SECTOR_SIZE == 2048

STRESS_TEST == 0
MOV_TEST == 1
AUDIO_TEST == 2
BACK_CHOICE == 3
NUM_CHOICES == 4

\* sizeof(TILE), sizeof(POLY_FT4), and what FntSort writes: one SPRT_8 per
\* glyph and one DR_TPAGE; addPrim writes the 4-byte tag of a primitive.
SIZEOF_TILE == 16
SIZEOF_POLY_FT4 == 40
SIZEOF_SPRT_8 == 16
SIZEOF_DR_TPAGE == 8
SIZEOF_TAG == 4

Buffers == {0, 1}
NoBuf == 2
Tracks == 0 .. (MAX_SONGS - 1)
Master == MAX_SONGS
Ctxs == 0 .. MAX_SONGS
NoCtx == MAX_SONGS + 1

Min(a, b) == IF a <= b THEN a ELSE b

\* the program has stopped: a failed assert, or a loop that never exits
Halted(S) == S.pc \in {"abort", "hang"}

----
\* The program state as one record

St ==
    [ active_buffer |-> active_buffer, next_packet |-> next_packet, ot |-> ot,
      gpu_busy |-> gpu_busy, gpu_chain |-> gpu_chain, gpu_start |-> gpu_start,
      draw_target |-> draw_target, disp_region |-> disp_region,
      pc |-> pc, load_i |-> load_i, frame |-> frame,
      curMode |-> curMode, curMenuChoice |-> curMenuChoice,
      isInMenu |-> isInMenu, useTexture |-> useTexture,
      lastButtons |-> lastButtons,
      currentTrackIndex |-> currentTrackIndex, loadedTracks |-> loadedTracks,
      pausedTracks |-> pausedTracks, sampleRate |-> sampleRate,
      read_ctx |-> read_ctx, stream_ctx |-> stream_ctx,
      buffering |-> buffering, active_ctx |-> active_ctx,
      cd_reads |-> cd_reads, disc |-> disc,
      op |-> op, requested |-> requested, wrote_outside |-> wrote_outside,
      ot_outside |-> ot_outside ]

Commit(S) ==
    /\ active_buffer' = S.active_buffer
    /\ next_packet' = S.next_packet
    /\ ot' = S.ot
    /\ gpu_busy' = S.gpu_busy
    /\ gpu_chain' = S.gpu_chain
    /\ gpu_start' = S.gpu_start
    /\ draw_target' = S.draw_target
    /\ disp_region' = S.disp_region
    /\ pc' = S.pc
    /\ load_i' = S.load_i
    /\ frame' = S.frame
    /\ curMode' = S.curMode
    /\ curMenuChoice' = S.curMenuChoice
    /\ isInMenu' = S.isInMenu
    /\ useTexture' = S.useTexture
    /\ lastButtons' = S.lastButtons
    /\ currentTrackIndex' = S.currentTrackIndex
    /\ loadedTracks' = S.loadedTracks
    /\ pausedTracks' = S.pausedTracks
    /\ sampleRate' = S.sampleRate
    /\ read_ctx' = S.read_ctx
    /\ stream_ctx' = S.stream_ctx
    /\ buffering' = S.buffering
    /\ active_ctx' = S.active_ctx
    /\ cd_reads' = S.cd_reads
    /\ disc' = S.disc
    /\ op' = S.op
    /\ requested' = S.requested
    /\ wrote_outside' = S.wrote_outside
    /\ ot_outside' = S.ot_outside

----
\* Render context

EmptyOT == [z \in 0 .. (OT_LENGTH - 1) |-> << >>]

\* ClearOTagR(buffers[b].ot, OT_LENGTH): every entry links straight to the next lower one
ClearOTagR(S, b) == [S EXCEPT !.ot[b] = EmptyOT]

\* z indexes an entry of uint32_t ot[OT_LENGTH]
OTIndex(z) == z \in DOMAIN EmptyOT

\* p <= &(buffers[b].buffer[BUFFER_LENGTH]), buffers[0] lying below buffers[1]
WithinArena(p, b) ==
    \/ p.buf < b
    \/ p.buf = b /\ p.off <= BUFFER_LENGTH

\* a write of n bytes at p leaves the arena of buffer b
WritesOutside(p, n, b) == n > 0 /\ (p.buf # b \/ p.off + n > BUFFER_LENGTH)

\* Variant of the capacity assert that also rejects a cursor exactly at the end
AssertCapacityStrict(S) ==
    IF S.next_packet.buf = S.active_buffer /\ S.next_packet.off < BUFFER_LENGTH THEN S
    ELSE [S EXCEPT !.pc = "abort"]

\* assert(ctx->next_packet <= &(buffer->buffer[BUFFER_LENGTH]))
AssertCapacity(S) ==
    IF WithinArena(S.next_packet, S.active_buffer) THEN S
    ELSE [S EXCEPT !.pc = "abort"]

SCREEN_XRES == 320
SCREEN_YRES == 240

\* Variant of draw_env with both buffers drawn at the top of VRAM
draw_env_at_origin(b) == [x |-> 0, y |-> 0, w |-> SCREEN_XRES, h |-> SCREEN_YRES]

\* the VRAM rectangles setup_context gives the two buffers with
\* SetDefDrawEnv / SetDefDispEnv, placed one below the other
draw_env(b) ==
    [x |-> 0, y |-> IF b = 0 THEN 0 ELSE SCREEN_YRES, w |-> SCREEN_XRES, h |-> SCREEN_YRES]

disp_env(b) ==
    [x |-> 0, y |-> IF b = 0 THEN 0 ELSE SCREEN_YRES, w |-> SCREEN_XRES, h |-> SCREEN_YRES]

setup_context(S) ==
    ClearOTagR([S EXCEPT !.active_buffer = 0,
                         !.next_packet = [buf |-> 0, off |-> 0]], 0)

\* Variant of new_primitive that links the primitive after those already in
\* the bucket
new_primitive_append(S, z, size) ==
    IF Halted(S) THEN S ELSE
    AssertCapacity(
        [S EXCEPT !.ot[S.active_buffer] =
                      IF OTIndex(z) THEN [@ EXCEPT ![z] = @ \o << S.next_packet >>] ELSE @,
                  !.ot_outside = @ \/ ~OTIndex(z),
                  !.wrote_outside =
                      @ \/ WritesOutside(S.next_packet, SIZEOF_TAG, S.active_buffer),
                  !.next_packet.off = @ + size,
                  !.requested = @ + size,
                  !.op = "alloc"])

new_primitive(S, z, size) ==
    LET b    == S.active_buffer
        prim == S.next_packet
    IN  IF Halted(S) THEN S ELSE
        AssertCapacity(
            [S EXCEPT !.ot[b] = IF OTIndex(z) THEN [@ EXCEPT ![z] = << prim >> \o @] ELSE @,
                      !.ot_outside = @ \/ ~OTIndex(z),
                      !.wrote_outside = @ \/ WritesOutside(prim, SIZEOF_TAG, b),
                      !.next_packet.off = @ + size,
                      !.requested = @ + size,
                      !.op = "alloc"])

\* FntSort(&ot[z], p, x, y, text) links one SPRT_8 per glyph, then one
\* DR_TPAGE, each with addPrim (so the last linked comes first in the chain),
\* and returns the address after the last one.
FntSort(chain, p, glyphs) ==
    [chain |-> [k \in 1 .. (glyphs + 1) |->
                    [buf |-> p.buf, off |-> p.off + ((glyphs + 1 - k) * SIZEOF_SPRT_8)]]
               \o chain,
     pri   |-> [buf |-> p.buf,
                off |-> p.off + (glyphs * SIZEOF_SPRT_8) + SIZEOF_DR_TPAGE]]

draw_text(S, z, glyphs) ==
    LET b == S.active_buffer
        r == FntSort(IF OTIndex(z) THEN S.ot[b][z] ELSE << >>, S.next_packet, glyphs)
        n == (glyphs * SIZEOF_SPRT_8) + SIZEOF_DR_TPAGE
    IN  IF Halted(S) THEN S ELSE
        AssertCapacity(
            [S EXCEPT !.ot[b] = IF OTIndex(z) THEN [@ EXCEPT ![z] = r.chain] ELSE @,
                      !.ot_outside = @ \/ ~OTIndex(z),
                      !.wrote_outside = @ \/ WritesOutside(S.next_packet, n, b),
                      !.next_packet = r.pri,
                      !.requested = @ + n,
                      !.op = "alloc"])

\* Variant of flip_buffers that shows the region of the buffer that was active
\* and hands the GPU the chain of the other one
flip_buffers_roles_swapped(S) ==
    [S EXCEPT !.disp_region = S.active_buffer,
              !.gpu_busy = TRUE,
              !.gpu_chain = 1 - S.active_buffer,
              !.gpu_start = OT_LENGTH - 1,
              !.draw_target = 1 - S.active_buffer,
              !.active_buffer = 1 - @,
              !.next_packet = [buf |-> 1 - S.active_buffer, off |-> 0],
              !.requested = 0,
              !.op = "flip",
              !.ot[1 - S.active_buffer] = EmptyOT]

\* Variant of flip_buffers that hands the GPU the first entry of the ordering
\* table instead of the last
flip_buffers_from_first(S) ==
    [S EXCEPT !.disp_region = 1 - S.active_buffer,
              !.gpu_busy = TRUE,
              !.gpu_chain = S.active_buffer,
              !.gpu_start = 0,
              !.draw_target = S.active_buffer,
              !.active_buffer = 1 - @,
              !.next_packet = [buf |-> 1 - S.active_buffer, off |-> 0],
              !.requested = 0,
              !.op = "flip",
              !.ot[1 - S.active_buffer] = EmptyOT]

\* Variant of flip_buffers that swaps the buffers but leaves the ordering
\* table of the buffer it switches to as it was
flip_buffers_keep_ot(S) ==
    [S EXCEPT !.disp_region = 1 - S.active_buffer,
              !.gpu_busy = TRUE,
              !.gpu_chain = S.active_buffer,
              !.gpu_start = OT_LENGTH - 1,
              !.draw_target = S.active_buffer,
              !.active_buffer = 1 - @,
              !.next_packet = [buf |-> 1 - S.active_buffer, off |-> 0],
              !.requested = 0,
              !.op = "flip"]

\* flip_buffers after DrawSync(0) and VSync(0) have returned
flip_buffers(S) ==
    LET draw_buffer == S.active_buffer
        disp_buffer == 1 - S.active_buffer
    IN  ClearOTagR(
            [S EXCEPT !.disp_region = disp_buffer,
                      !.gpu_busy = TRUE,
                      !.gpu_chain = draw_buffer,
                      !.gpu_start = OT_LENGTH - 1,
                      !.draw_target = draw_buffer,
                      !.active_buffer = 1 - @,
                      !.next_packet = [buf |-> disp_buffer, off |-> 0],
                      !.requested = 0,
                      !.op = "flip"],
            disp_buffer)

\* the primitives the GPU meets when it follows the links from entry z of the
\* ordering table otb: those linked after entry z, then entry z - 1 and so on
RECURSIVE Traverse(_, _)
Traverse(otb, z) == IF z < 0 THEN << >> ELSE otb[z] \o Traverse(otb, z - 1)

\* Variant of DrawSync that returns whether or not the GPU has finished
DrawSyncNoWait(S) == TRUE

\* DrawSync(0) returns once the GPU has consumed the chain it was given
DrawSyncReturns(S) == ~S.gpu_busy

\* DrawSync(0) as one step: the program waits, the GPU finishes its chain
DrawSync(S) == [S EXCEPT !.gpu_busy = FALSE]

----
\* The stream library (stream.h: Stream_Context and the Stream_* calls)

\* a zero-initialised Stream_Context / StreamReadContext (static storage)
ZeroStreamCtx ==
    [buffer_size |-> 0, chunk_size |-> 0, sample_rate |-> 0, length |-> 0, tail |-> 0]
ZeroReadCtx ==
    [start_lba |-> 0, stream_length |-> 0, sample_rate |-> 0,
     next_sector |-> 0, refill_length |-> 0]

\* a - b in size_t: a wrapped difference is at least 2^31, which SIZE_HUGE stands for
SIZE_HUGE == 2147483647
USub(a, b) == IF a >= b THEN a - b ELSE SIZE_HUGE

Stream_Init(config) ==
    [buffer_size |-> config.buffer_size,
     chunk_size  |-> config.interleave * config.channels,
     sample_rate |-> config.sample_rate,
     length |-> 0, tail |-> 0]

\* bytes free in the ring buffer
Stream_GetRefillLength(sc) == USub(sc.buffer_size, sc.length)

\* the write pointer and the bytes that can be written there in one piece
Stream_GetFeedPtr(sc) ==
    [ptr |-> sc.tail,
     len |-> Min(Stream_GetRefillLength(sc), sc.buffer_size - sc.tail)]

\* marks length bytes at the write pointer as valid
Stream_Feed(sc, length) ==
    [sc EXCEPT !.tail = IF sc.buffer_size > 0
                        THEN (sc.tail + length) % sc.buffer_size ELSE sc.tail,
               !.length = @ + length]

Stream_Start(S, c) == [S EXCEPT !.active_ctx = c]

Stream_Stop(S) == [S EXCEPT !.active_ctx = NoCtx]

Stream_SetSampleRate(S, c, rate) == [S EXCEPT !.stream_ctx[c].sample_rate = rate]

\* the SPU interrupt of a playing stream takes one chunk out of its ring buffer
Stream_Consume(sc) ==
    IF sc.chunk_size > 0 /\ sc.length >= sc.chunk_size
    THEN [sc EXCEPT !.length = @ - sc.chunk_size]
    ELSE sc

----
\* The CD drive

CdlComplete == "CdlComplete"
CdlDiskError == "CdlDiskError"

\* CdReadSync(1, 0) > 0: sectors of a read are still to come
CdReadSyncBusy(S) == Len(S.cd_reads) > 0

\* CdRead(sectors, ptr, mode) after CdControl(CdlSetloc, lba)
CdRead(S, c, lba, sectors, ptr) ==
    [S EXCEPT !.cd_reads = Append(@, [ctx |-> c, lba |-> lba, len |-> sectors, ptr |-> ptr])]

----
\* Stream read scheduler

\* Variant of the wrap loop that leaves the cursor where it is
WrapSectorNever(next_sector, max_length, stream_length) ==
    [next_sector |-> next_sector, max_length |-> max_length]

\* the while loop of feed_stream, for stream_length > 0
RECURSIVE WrapSector(_, _, _)
WrapSector(next_sector, max_length, stream_length) ==
    IF max_length <= 0
    THEN WrapSector(next_sector - stream_length, max_length + stream_length, stream_length)
    ELSE [next_sector |-> next_sector, max_length |-> max_length]

\* Variant of feed_stream that asks for all the feeder can take, wherever the track ends
feed_stream_uncapped(S, c) ==
    LET rc  == S.read_ctx[c]
        sc  == S.stream_ctx[c]
        fp  == Stream_GetFeedPtr(sc)
        w   == WrapSector(rc.next_sector, rc.stream_length - rc.next_sector,
                          rc.stream_length)
        refill_length == fp.len \div SECTOR_SIZE
    IN  IF Halted(S) THEN S
        ELSE IF CdReadSyncBusy(S)
        THEN [S EXCEPT !.buffering = TRUE]
        ELSE IF Stream_GetRefillLength(sc) < REFILL_THRESHOLD * SECTOR_SIZE
        THEN [S EXCEPT !.buffering = FALSE]
        ELSE IF rc.stream_length <= 0 /\ rc.stream_length - rc.next_sector <= 0
        THEN [S EXCEPT !.pc = "hang"]
        ELSE [CdRead(S, c, rc.start_lba + w.next_sector, refill_length, fp.ptr)
                  EXCEPT !.read_ctx[c].next_sector = w.next_sector + refill_length,
                         !.read_ctx[c].refill_length = refill_length,
                         !.buffering = TRUE]

\* Variant of feed_stream that does not ask the drive whether a read is pending
feed_stream_no_busy_check(S, c) ==
    LET rc  == S.read_ctx[c]
        sc  == S.stream_ctx[c]
        fp  == Stream_GetFeedPtr(sc)
        w   == WrapSector(rc.next_sector, rc.stream_length - rc.next_sector,
                          rc.stream_length)
        refill_length == Min(fp.len \div SECTOR_SIZE, w.max_length)
    IN  IF Halted(S) THEN S
        ELSE IF Stream_GetRefillLength(sc) < REFILL_THRESHOLD * SECTOR_SIZE
        THEN [S EXCEPT !.buffering = FALSE]
        ELSE IF rc.stream_length <= 0 /\ rc.stream_length - rc.next_sector <= 0
        THEN [S EXCEPT !.pc = "hang"]
        ELSE [CdRead(S, c, rc.start_lba + w.next_sector, refill_length, fp.ptr)
                  EXCEPT !.read_ctx[c].next_sector = w.next_sector + refill_length,
                         !.read_ctx[c].refill_length = refill_length,
                         !.buffering = TRUE]

\* feed_stream(&read_ctx[c], &stream_ctx[c]); the value returned is S.buffering
feed_stream(S, c) ==
    LET rc  == S.read_ctx[c]
        sc  == S.stream_ctx[c]
        fp  == Stream_GetFeedPtr(sc)
        w   == WrapSector(rc.next_sector, rc.stream_length - rc.next_sector,
                          rc.stream_length)
        refill_length == Min(fp.len \div SECTOR_SIZE, w.max_length)
    IN  IF Halted(S) THEN S
        ELSE IF CdReadSyncBusy(S)
        THEN [S EXCEPT !.buffering = TRUE]
        ELSE IF Stream_GetRefillLength(sc) < REFILL_THRESHOLD * SECTOR_SIZE
        THEN [S EXCEPT !.buffering = FALSE]
        ELSE IF rc.stream_length <= 0 /\ rc.stream_length - rc.next_sector <= 0
        THEN [S EXCEPT !.pc = "hang"]
        ELSE [CdRead(S, c, rc.start_lba + w.next_sector, refill_length, fp.ptr)
                  EXCEPT !.read_ctx[c].next_sector = w.next_sector + refill_length,
                         !.read_ctx[c].refill_length = refill_length,
                         !.buffering = TRUE]

\* Variant of cd_read_handler that also clears the pending length of the track
cd_read_handler_clears_pending(S, event) ==
    LET c == S.currentTrackIndex
    IN  IF event # CdlDiskError
        THEN [S EXCEPT !.stream_ctx[c] =
                           Stream_Feed(@, S.read_ctx[c].refill_length * SECTOR_SIZE),
                       !.read_ctx[c].refill_length = 0]
        ELSE [S EXCEPT !.read_ctx[c].refill_length = 0]

cd_read_handler(S, event) ==
    LET c == S.currentTrackIndex
    IN  IF event # CdlDiskError
        THEN [S EXCEPT !.stream_ctx[c] =
                  Stream_Feed(@, S.read_ctx[c].refill_length * SECTOR_SIZE)]
        ELSE S

\* Variant of the sector length that drops a last partial sector
StreamLengthFloor(vag) ==
    ((IF vag.channels # 0 THEN vag.channels ELSE 2)
         * ((vag.size + vag.interleave - 1) \div vag.interleave) * vag.interleave)
        \div SECTOR_SIZE

\* the channel count of a header (stereo if 0) and the sector length of its data
NumChannels(vag) == IF vag.channels # 0 THEN vag.channels ELSE 2
NumChunks(vag) == (vag.size + vag.interleave - 1) \div vag.interleave
StreamLength(vag) ==
    ((NumChannels(vag) * NumChunks(vag) * vag.interleave) + 2047) \div SECTOR_SIZE

\* setup_stream up to the pre-fill loop: the header read (synchronous, no
\* callback), Stream_Init and the read context
setup_stream(S, c, file) ==
    LET config == [interleave |-> file.interleave, buffer_size |-> RAM_BUFFER_SIZE,
                   sample_rate |-> file.sample_rate, channels |-> NumChannels(file)]
    IN  [S EXCEPT !.stream_ctx[c] = Stream_Init(config),
                  !.read_ctx[c] = [start_lba |-> file.lba + 1,
                                   stream_length |-> StreamLength(file),
                                   sample_rate |-> config.sample_rate,
                                   next_sector |-> 0,
                                   refill_length |-> 0]]

\* one turn of "while (feed_stream(&masterReadCtx, &masterStreamCtx))"
PrefillPoll(S) == feed_stream(S, Master)

----
\* Test modes

Edge(S, btn, b) == b \notin S.lastButtons /\ b \in btn

draw_rectangle(S, texture, z) ==
    new_primitive(S, z, IF texture = 0 THEN SIZEOF_TILE ELSE SIZEOF_POLY_FT4)

\* InitAudioTest without the reset loop over the tracks
InitAudioTest_keeps_tracks(S) ==
    LET S1 == [S EXCEPT !.currentTrackIndex = START_TRACK]
    IN  IF S1.loadedTracks[S1.currentTrackIndex]
        THEN Stream_Start(S1, S1.currentTrackIndex)
        ELSE S1

InitAudioTest(S) ==
    LET S1 == [S EXCEPT !.currentTrackIndex = START_TRACK,
                        !.read_ctx = [c \in Ctxs |->
                            IF c \in Tracks THEN [@[c] EXCEPT !.next_sector = 0]
                            ELSE @[c]],
                        !.pausedTracks = [i \in Tracks |-> FALSE]]
    IN  IF S1.loadedTracks[S1.currentTrackIndex]
        THEN Stream_Start(S1, S1.currentTrackIndex)
        ELSE S1

EndAudioTest(S) ==
    IF S.loadedTracks[S.currentTrackIndex] /\ ~S.pausedTracks[S.currentTrackIndex]
    THEN Stream_Stop(S)
    ELSE S

PauseAudioTest(S) == EndAudioTest(S)

ResumeAudioTest(S) ==
    IF S.loadedTracks[S.currentTrackIndex] /\ ~S.pausedTracks[S.currentTrackIndex]
    THEN Stream_Start(S, S.currentTrackIndex)
    ELSE S

\* the iterations lo .. hi of the loop of DrawStressTest, in the order of i
RECURSIVE DrawStressTestRange(_, _, _)
DrawStressTestRange(S, lo, hi) ==
    IF lo > hi THEN S
    ELSE IF lo = hi THEN draw_rectangle(S, S.useTexture, lo + 1)
    ELSE LET mid == (lo + hi) \div 2
             S1  == DrawStressTestRange(S, lo, mid)
         IN  IF Halted(S1) THEN S1 ELSE DrawStressTestRange(S1, mid + 1, hi)

\* Variant of DrawStressTest that passes i + 2 as the depth of rectangle i
DrawStressTest_one_deeper(S) == DrawStressTestRange(S, 1, NUM_RECTANGLES)

DrawStressTest(S) == DrawStressTestRange(S, 0, NUM_RECTANGLES - 1)

DrawMovableTest(S) == draw_rectangle(S, S.useTexture, 1)

\* the number of characters sprintf("%d") prints for n
RECURSIVE Digits(_)
Digits(n) ==
    IF n < 0 THEN 1 + Digits(0 - n)
    ELSE IF n < 10 THEN 1
    ELSE 1 + Digits(n \div 10)

\* the glyphs (characters other than blanks) of each line of the audio test
AudioTextGlyphs(S) ==
    LET c == S.currentTrackIndex
    IN  << 13,
           IF S.buffering THEN 16 ELSE 13,
           12 + Digits(S.stream_ctx[c].length) + 1 + Digits(S.stream_ctx[c].buffer_size),
           15 + Digits(S.read_ctx[c].next_sector) + 1 + Digits(S.read_ctx[c].stream_length),
           11 + Digits(S.sampleRate[c]) + 2,
           9,
           8 + (IF S.pausedTracks[c] THEN 6 ELSE 5),
           16, 16, 25, 18, 21, 31 >>

RECURSIVE drawTextLines(_, _, _)
drawTextLines(S, lines, k) ==
    IF k > Len(lines) THEN S
    ELSE drawTextLines(draw_text(S, 0, lines[k]), lines, k + 1)

\* Variant of DrawAudioTest that polls the scheduler only for a track that is
\* not paused
DrawAudioTestUnpausedOnly(S) ==
    LET c  == S.currentTrackIndex
        S1 == IF S.pausedTracks[c] THEN S ELSE feed_stream(S, c)
    IN  IF ~S1.loadedTracks[c]
        THEN draw_text(S1, 0, 14 + Digits(c + 1))
        ELSE drawTextLines(S1, AudioTextGlyphs(S1), 1)

DrawAudioTest(S) ==
    LET c  == S.currentTrackIndex
        S1 == feed_stream(S, c)
    IN  IF ~S1.loadedTracks[c]
        THEN draw_text(S1, 0, 14 + Digits(c + 1))
        ELSE drawTextLines(S1, AudioTextGlyphs(S1), 1)

\* the glyphs of menuChoicesText
MenuGlyphs == << 10, 12, 9, 4 >>

RECURSIVE DrawMenuFrom(_, _)
DrawMenuFrom(S, i) ==
    IF i >= NUM_CHOICES THEN S
    ELSE LET S1 == IF S.curMenuChoice = i THEN draw_rectangle(S, 1, 0) ELSE S
         IN  DrawMenuFrom(draw_text(S1, 0, MenuGlyphs[i + 1]), i + 1)

DrawMenu(S) == DrawMenuFrom(S, 0)

HandleTextureCommand(S, btn) ==
    IF Edge(S, btn, "TRIANGLE")
    THEN [S EXCEPT !.useTexture = IF @ = 0 THEN 1 ELSE 0]
    ELSE S

\* the rectangle of the movement test (position, size, colour, speed) is not modelled
HandleMovableTestCommands(S, btn) == HandleTextureCommand(S, btn)

HandleStressTestCommands(S, btn) == HandleTextureCommand(S, btn)

HandleAudioTestCommands(S, btn) ==
    LET c0 == S.currentTrackIndex
        sectors_per_chunk == (S.stream_ctx[c0].chunk_size + 2047) \div SECTOR_SIZE
        S1 == IF Edge(S, btn, "SELECT")
              THEN LET T == [S EXCEPT !.pausedTracks[c0] = ~@]
                   IN  IF T.pausedTracks[c0] THEN Stream_Stop(T)
                       ELSE Stream_Start(T, c0)
              ELSE S
        S2 == IF "LEFT" \in btn /\ S1.read_ctx[c0].next_sector > 0
              THEN [S1 EXCEPT !.read_ctx[c0].next_sector = @ - sectors_per_chunk]
              ELSE S1
        S3 == IF "RIGHT" \in btn
              THEN [S2 EXCEPT !.read_ctx[c0].next_sector = @ + sectors_per_chunk]
              ELSE S2
        S4 == IF Edge(S, btn, "CIRCLE")
              THEN [S3 EXCEPT !.read_ctx[c0].next_sector = 0]
              ELSE S3
        S5 == IF "DOWN" \in btn /\ S4.sampleRate[c0] > 11000
              THEN Stream_SetSampleRate([S4 EXCEPT !.sampleRate[c0] = @ - 100],
                                        c0, S4.sampleRate[c0] - 100)
              ELSE S4
        S6 == IF "UP" \in btn /\ S5.sampleRate[c0] < 88200
              THEN Stream_SetSampleRate([S5 EXCEPT !.sampleRate[c0] = @ + 100],
                                        c0, S5.sampleRate[c0] + 100)
              ELSE S5
        S7 == IF Edge(S, btn, "CROSS")
              THEN Stream_SetSampleRate(
                       [S6 EXCEPT !.sampleRate[c0] = S6.read_ctx[c0].sample_rate],
                       c0, S6.read_ctx[c0].sample_rate)
              ELSE S6
        c1 == IF c0 + 1 >= MAX_SONGS THEN 0 ELSE c0 + 1
    IN  IF Edge(S, btn, "TRIANGLE")
        THEN LET T == [Stream_Stop(S7) EXCEPT !.currentTrackIndex = c1]
             IN  IF T.loadedTracks[c1] /\ ~T.pausedTracks[c1]
                 THEN Stream_Start(T, c1)
                 ELSE T
        ELSE S7

OpenMenu(S) == PauseAudioTest([S EXCEPT !.isInMenu = 1, !.curMenuChoice = 0])

CloseMenu(S) == [S EXCEPT !.isInMenu = 0]

EndCurrentMode(S) == IF S.curMode = AUDIO_TEST THEN EndAudioTest(S) ELSE S

ResumeCurrentMode(S) == IF S.curMode = AUDIO_TEST THEN ResumeAudioTest(S) ELSE S

PauseCurrentMode(S) == IF S.curMode = AUDIO_TEST THEN PauseAudioTest(S) ELSE S

HandleMenuCommands(S, btn) ==
    IF Edge(S, btn, "DOWN")
    THEN [S EXCEPT !.curMenuChoice = IF @ + 1 = NUM_CHOICES THEN 0 ELSE @ + 1]
    ELSE IF Edge(S, btn, "UP")
    THEN [S EXCEPT !.curMenuChoice = IF @ - 1 < 0 THEN NUM_CHOICES - 1 ELSE @ - 1]
    ELSE IF "CROSS" \in btn
    THEN LET T == CloseMenu(S)
         IN  CASE T.curMenuChoice = STRESS_TEST ->
                      [EndCurrentMode(T) EXCEPT !.curMode = STRESS_TEST]
               [] T.curMenuChoice = MOV_TEST ->
                      [EndCurrentMode(T) EXCEPT !.curMode = MOV_TEST]
               [] T.curMenuChoice = AUDIO_TEST ->
                      [InitAudioTest(EndCurrentMode(T)) EXCEPT !.curMode = AUDIO_TEST]
               [] OTHER -> ResumeCurrentMode(T)
    ELSE S

\* pad->stat is 0 when a controller answers; btn is the set of buttons held down
HandleCommands(S, stat, btn) ==
    IF stat # 0 THEN S
    ELSE LET S1 == IF S.isInMenu = 0
                   THEN LET T == CASE S.curMode = STRESS_TEST -> HandleStressTestCommands(S, btn)
                                   [] S.curMode = MOV_TEST -> HandleMovableTestCommands(S, btn)
                                   [] OTHER -> HandleAudioTestCommands(S, btn)
                        IN  IF "START" \in btn THEN OpenMenu(PauseCurrentMode(T)) ELSE T
                   ELSE HandleMenuCommands(S, btn)
         IN  [S1 EXCEPT !.lastButtons = btn]

DrawCurrentMode(S) ==
    IF S.isInMenu # 0 THEN DrawMenu(S)
    ELSE CASE S.curMode = STRESS_TEST -> DrawStressTest(S)
           [] S.curMode = MOV_TEST -> DrawMovableTest(S)
           [] OTHER -> DrawAudioTest(S)

----
\* The environment: the disc and the controller

NoFile ==
    [present |-> FALSE, lba |-> 0, size |-> 0, interleave |-> 0, channels |-> 0,
     sample_rate |-> 0]

\* a .VAG file at sector lba whose header holds the given fields
VagFile(lba, size, interleave, channels, sample_rate) ==
    [present |-> TRUE, lba |-> lba, size |-> size, interleave |-> interleave,
     channels |-> channels, sample_rate |-> sample_rate]

\* the main loop is followed for MaxFrames turns
MaxFrames == 7
\* RIGHT is not held once the cursor of the current track is MaxSeekChunks chunks past its end
MaxSeekChunks == 1
\* UP / DOWN are not held once the rate is MaxRateSteps steps away from the native rate
MaxRateSteps == 0

\* two track files: one chunk of 24 sectors for each of two channels (channel
\* field 0), and two such chunks
FileA(i) == VagFile(100 * (i + 1), 24576, 24576, 0, 44100)
FileB(i) == VagFile(100 * (i + 1), 49152, 24576, 2, 11000)
\* a track file whose header gives a data size of 0
FileEmpty(i) == VagFile(100 * (i + 1), 0, 24576, 0, 44100)

\* the disc that holds file f as track i and no other track
OneTrackDisc(i, f) == [j \in Tracks |-> IF j = i THEN f ELSE NoFile]

\* the discs the program is run on
Discs ==
    { [j \in Tracks |-> NoFile],
      OneTrackDisc(0, FileA(0)), OneTrackDisc(0, FileB(0)), OneTrackDisc(1, FileA(1)),
      OneTrackDisc(0, FileEmpty(0)) }

Buttons ==
    { "SELECT", "LEFT", "RIGHT", "CIRCLE", "DOWN", "UP", "CROSS", "TRIANGLE", "START" }

\* what the controller reports in a frame: no controller, nothing held, one button held
PadInputs ==
    { [stat |-> 1, btn |-> {}] } \cup { [stat |-> 0, btn |-> {}] }
        \cup { [stat |-> 0, btn |-> {b}] : b \in Buttons }

PadAllowed(S, pad) ==
    LET c  == S.currentTrackIndex
        rc == S.read_ctx[c]
        inAudio == S.isInMenu = 0 /\ S.curMode = AUDIO_TEST
        chunk == (S.stream_ctx[c].chunk_size + 2047) \div SECTOR_SIZE
    IN  /\ ("RIGHT" \in pad.btn /\ inAudio) =>
               rc.next_sector < rc.stream_length + (MaxSeekChunks * chunk)
        /\ ("UP" \in pad.btn /\ inAudio) =>
               S.sampleRate[c] < rc.sample_rate + (100 * MaxRateSteps)
        /\ ("DOWN" \in pad.btn /\ inAudio) =>
               S.sampleRate[c] > rc.sample_rate - (100 * MaxRateSteps)

----
\* The program: main() from LoadAudioTracks on

InitState(d, p) ==
    [ active_buffer |-> 0,
      next_packet |-> [buf |-> 0, off |-> 0],
      ot |-> [b \in Buffers |-> EmptyOT],
      gpu_busy |-> FALSE,
      gpu_chain |-> NoBuf,
      gpu_start |-> 0,
      draw_target |-> NoBuf,
      disp_region |-> NoBuf,
      pc |-> p,
      load_i |-> 0,
      frame |-> 0,
      curMode |-> STRESS_TEST,
      curMenuChoice |-> 0,
      isInMenu |-> 1,
      useTexture |-> 0,
      lastButtons |-> {},
      currentTrackIndex |-> START_TRACK,
      loadedTracks |-> [i \in Tracks |-> FALSE],
      pausedTracks |-> [i \in Tracks |-> FALSE],
      sampleRate |-> [i \in Tracks |-> 0],
      read_ctx |-> [c \in Ctxs |-> ZeroReadCtx],
      stream_ctx |-> [c \in Ctxs |-> ZeroStreamCtx],
      buffering |-> FALSE,
      active_ctx |-> NoCtx,
      cd_reads |-> << >>,
      disc |-> d,
      op |-> "setup",
      requested |-> 0,
      wrote_outside |-> FALSE,
      ot_outside |-> FALSE ]

\* the variables hold the state S
Start(S) ==
    /\ active_buffer = S.active_buffer
    /\ next_packet = S.next_packet
    /\ ot = S.ot
    /\ gpu_busy = S.gpu_busy
    /\ gpu_chain = S.gpu_chain
    /\ gpu_start = S.gpu_start
    /\ draw_target = S.draw_target
    /\ disp_region = S.disp_region
    /\ pc = S.pc
    /\ load_i = S.load_i
    /\ frame = S.frame
    /\ curMode = S.curMode
    /\ curMenuChoice = S.curMenuChoice
    /\ isInMenu = S.isInMenu
    /\ useTexture = S.useTexture
    /\ lastButtons = S.lastButtons
    /\ currentTrackIndex = S.currentTrackIndex
    /\ loadedTracks = S.loadedTracks
    /\ pausedTracks = S.pausedTracks
    /\ sampleRate = S.sampleRate
    /\ read_ctx = S.read_ctx
    /\ stream_ctx = S.stream_ctx
    /\ buffering = S.buffering
    /\ active_ctx = S.active_ctx
    /\ cd_reads = S.cd_reads
    /\ disc = S.disc
    /\ op = S.op
    /\ requested = S.requested
    /\ wrote_outside = S.wrote_outside
    /\ ot_outside = S.ot_outside

\* main up to the end of setup_context
InitWith(d, p) == Start(setup_context(InitState(d, p)))

Init == \E d \in Discs : InitWith(d, "load_search")

\* the next step of the loop of LoadAudioTracks after track i is done
LoadNext(S) ==
    [S EXCEPT !.load_i = @ + 1,
              !.pc = IF S.load_i + 1 < MAX_SONGS THEN "load_search" ELSE "handle"]

\* CdSearchFile, the two flags, and the draw_text of drawImmediateText
LoadSearch ==
    /\ pc = "load_search"
    /\ LET loaded == disc[load_i].present
           S1 == [St EXCEPT !.loadedTracks[load_i] = loaded,
                            !.pausedTracks[load_i] = FALSE]
           S2 == draw_text(S1, 0, 19 + Digits(load_i + 1) + (IF loaded THEN 7 ELSE 6))
       IN  Commit(IF Halted(S2) THEN S2 ELSE [S2 EXCEPT !.pc = "load_flip"])

\* the flip_buffers of drawImmediateText
LoadFlip ==
    /\ pc = "load_flip"
    /\ LET S1 == flip_buffers(DrawSync(St))
       IN  Commit(IF S1.loadedTracks[load_i] THEN [S1 EXCEPT !.pc = "load_setup"]
                  ELSE LoadNext(S1))

LoadSetup ==
    /\ pc = "load_setup"
    /\ Commit([setup_stream(St, load_i, disc[load_i]) EXCEPT !.pc = "load_prefill"])

\* one turn of the pre-fill loop; when it ends setup_stream returns and
\* LoadAudioTracks takes the track's sample rate
LoadPrefill ==
    /\ pc = "load_prefill"
    /\ LET S1 == PrefillPoll(St)
       IN  Commit(IF Halted(S1) \/ S1.buffering THEN S1
                  ELSE LoadNext([S1 EXCEPT !.sampleRate[load_i] =
                                               S1.read_ctx[load_i].sample_rate]))

Handle ==
    /\ pc = "handle"
    /\ frame < MaxFrames
    /\ \E pad \in PadInputs :
          /\ PadAllowed(St, pad)
          /\ Commit([HandleCommands(St, pad.stat, pad.btn) EXCEPT
                         !.pc = "draw", !.frame = @ + 1])

Draw ==
    /\ pc = "draw"
    /\ LET S1 == DrawCurrentMode(St)
       IN  Commit(IF Halted(S1) THEN S1 ELSE [S1 EXCEPT !.pc = "flip"])

Flip ==
    /\ pc = "flip"
    /\ Commit([flip_buffers(DrawSync(St)) EXCEPT !.pc = "handle"])

\* the drive finishes the oldest read and calls the read callback
CdDone ==
    /\ Len(cd_reads) > 0
    /\ \E event \in {CdlComplete, CdlDiskError} :
          Commit(cd_read_handler([St EXCEPT !.cd_reads = Tail(@), !.op = event], event))

\* the SPU interrupt of the playing stream
SpuIrq ==
    /\ active_ctx \in Ctxs
    /\ Stream_Consume(stream_ctx[active_ctx]) # stream_ctx[active_ctx]
    /\ Commit([St EXCEPT !.stream_ctx[active_ctx] = Stream_Consume(@)])

Next ==
    \/ LoadSearch
    \/ LoadFlip
    \/ LoadSetup
    \/ LoadPrefill
    \/ Handle
    \/ Draw
    \/ Flip
    \/ CdDone
    \/ SpuIrq

Spec == Init /\ [][Next]_vars

----
\* The render context under any caller: allocations and flips in any order

\* a frame holds at most MaxPrims allocations
MaxPrims == 3

\* the calls a caller makes: new_primitive(ctx, z, size) and draw_text(ctx, x, y, z, text)
PrimCalls ==
    { [z |-> 0, size |-> SIZEOF_TILE], [z |-> OT_LENGTH - 1, size |-> SIZEOF_POLY_FT4],
      [z |-> 1, size |-> BUFFER_LENGTH - SIZEOF_TILE], [z |-> 0, size |-> BUFFER_LENGTH] }
TextCalls == { [z |-> 0, glyphs |-> 1] }

\* the number of primitives linked into the frame being built
RECURSIVE PrimsInFrame(_, _)
PrimsInFrame(S, z) ==
    IF z < 0 THEN 0 ELSE Len(S.ot[S.active_buffer][z]) + PrimsInFrame(S, z - 1)

RenderInit == InitWith([j \in Tracks |-> NoFile], "render")

RNewPrimitive ==
    /\ pc = "render"
    /\ \E call \in PrimCalls :
          /\ PrimsInFrame(St, OT_LENGTH - 1) < MaxPrims
          /\ Commit(new_primitive(St, call.z, call.size))

RDrawText ==
    /\ pc = "render"
    /\ \E call \in TextCalls :
          /\ PrimsInFrame(St, OT_LENGTH - 1) < MaxPrims
          /\ Commit(draw_text(St, call.z, call.glyphs))

RFlip ==
    /\ pc = "render"
    /\ DrawSyncReturns(St)
    /\ Commit(flip_buffers(St))

\* the GPU reaches the end of the chain it was given
RGpuDone ==
    /\ gpu_busy
    /\ Commit([St EXCEPT !.gpu_busy = FALSE])

RenderNext ==
    \/ RNewPrimitive
    \/ RDrawText
    \/ RFlip
    \/ RGpuDone

SpecRender == RenderInit /\ [][RenderNext]_vars

----
\* The scheduler of one track under any caller: polls and read completions

\* a track of 100 sectors: 20 chunks of 5 sectors for one channel
FileC == VagFile(100, 204800, 10240, 1, 44100)

\* the scheduler is polled MaxPolls times
MaxPolls == 2

\* the cursors a track can be left with by reads and seeks, the sectors held
\* by its feeder and the sector its write pointer stands at
FeedSectors == { -2, 0, 50, 95, 99, 100, 130 }
FeedUsed == { 0, 23, 24, 25, 48 }
FeedTails == { 0, 38, 47 }

FeedInit ==
    \E next \in FeedSectors, used \in FeedUsed, tail \in FeedTails :
        LET S0 == setup_context(InitState(OneTrackDisc(0, FileC), "feed"))
            S1 == setup_stream([S0 EXCEPT !.loadedTracks[0] = TRUE], 0, FileC)
        IN  Start([S1 EXCEPT !.read_ctx[0].next_sector = next,
                             !.stream_ctx[0].length = used * SECTOR_SIZE,
                             !.stream_ctx[0].tail = tail * SECTOR_SIZE,
                             !.curMode = AUDIO_TEST,
                             !.isInMenu = 0])

FPoll ==
    /\ pc = "feed"
    /\ frame < MaxPolls
    /\ Commit([feed_stream(St, currentTrackIndex) EXCEPT !.frame = @ + 1])

FeedNext ==
    \/ FPoll
    \/ CdDone

SpecFeed == FeedInit /\ [][FeedNext]_vars

\* ---- the menu over an audio test that has already run ----

MaxMenuFrames == 1

\* a disc with two tracks
MenuDisc == [j \in Tracks |-> IF j \in {0, 1} THEN FileA(j) ELSE NoFile]

MenuTracks == {0, 1, 3}

\* track i has issued one read and the drive has completed it
ReadOnce(S, i) ==
    LET S1 == feed_stream([S EXCEPT !.currentTrackIndex = i], i)
    IN  [cd_read_handler([S1 EXCEPT !.cd_reads = << >>], CdlComplete)
            EXCEPT !.currentTrackIndex = S.currentTrackIndex]

\* the program in its menu, after LoadAudioTracks and some time in the modes:
\* any mode, any menu choice, any current track, any pause flags, and any of
\* the two tracks read from
MenuInit ==
    \E mode \in {STRESS_TEST, AUDIO_TEST}, choice \in 0 .. (NUM_CHOICES - 1),
       cur \in MenuTracks, paused \in SUBSET {0, 1}, read \in SUBSET {0, 1} :
        LET S0 == setup_context(InitState(MenuDisc, "handle"))
            S1 == setup_stream([S0 EXCEPT !.loadedTracks[0] = TRUE,
                                          !.sampleRate[0] = FileA(0).sample_rate], 0, FileA(0))
            S2 == setup_stream([S1 EXCEPT !.loadedTracks[1] = TRUE,
                                          !.sampleRate[1] = FileA(1).sample_rate], 1, FileA(1))
            S3 == IF 0 \in read THEN ReadOnce(S2, 0) ELSE S2
            S4 == IF 1 \in read THEN ReadOnce(S3, 1) ELSE S3
        IN  Start([S4 EXCEPT !.load_i = MAX_SONGS,
                             !.curMode = mode,
                             !.curMenuChoice = choice,
                             !.isInMenu = 1,
                             !.currentTrackIndex = cur,
                             !.pausedTracks = [i \in Tracks |-> i \in paused],
                             !.op = "setup"])

MHandle ==
    /\ pc = "handle"
    /\ frame < MaxMenuFrames
    /\ \E pad \in PadInputs :
          /\ PadAllowed(St, pad)
          /\ Commit([HandleCommands(St, pad.stat, pad.btn) EXCEPT
                         !.pc = "draw", !.frame = @ + 1])

MenuNext ==
    \/ MHandle
    \/ Draw
    \/ Flip
    \/ CdDone
    \/ SpuIrq

SpecMenu == MenuInit /\ [][MenuNext]_vars

\* ---- the audio test from the moment the menu starts it ----

MaxAudioFrames == 4

\* a disc without TRACK-1.VAG and with TRACK-2.VAG
AudioDisc == OneTrackDisc(1, FileA(1))

\* the pad states of a player who presses START, SELECT, TRIANGLE, and in
\* the menu DOWN and CROSS, one button at a time
AudioPads ==
    { [stat |-> 0, btn |-> {}] }
        \cup { [stat |-> 0, btn |-> {b}] : b \in {"START", "SELECT", "TRIANGLE", "DOWN", "CROSS"} }

\* the program at the end of the HandleCommands in which CROSS chose the audio
\* test in the menu, after LoadAudioTracks found TRACK-2.VAG only
AudioInit ==
    LET S0 == setup_context(InitState(AudioDisc, "draw"))
        S1 == setup_stream([S0 EXCEPT !.loadedTracks[1] = TRUE,
                                      !.sampleRate[1] = FileA(1).sample_rate], 1, FileA(1))
        S2 == InitAudioTest([S1 EXCEPT !.load_i = MAX_SONGS,
                                       !.curMenuChoice = AUDIO_TEST,
                                       !.isInMenu = 0])
    IN  Start([S2 EXCEPT !.curMode = AUDIO_TEST, !.lastButtons = {"CROSS"}])

AHandle ==
    /\ pc = "handle"
    /\ frame < MaxAudioFrames
    /\ \E pad \in AudioPads :
          /\ PadAllowed(St, pad)
          /\ Commit([HandleCommands(St, pad.stat, pad.btn) EXCEPT
                         !.pc = "draw", !.frame = @ + 1])

AudioNext ==
    \/ AHandle
    \/ Draw
    \/ Flip
    \/ CdDone
    \/ SpuIrq

SpecAudio == AudioInit /\ [][AudioNext]_vars

\* ---- the sample rate of the playing track ----

MaxRateFrames == 2

RATE_MIN == 11000
RATE_MAX == 88200
RATE_STEP == 100

\* native sample rates of the track, within RATE_MIN .. RATE_MAX
RateNatives == {22050, 44100}

FileRate(rate) == VagFile(100, 24576, 24576, 0, rate)

\* the rates UP / DOWN reach from native without leaving RATE_MIN .. RATE_MAX:
\* the native rate and the two lowest and two highest of native + k * RATE_STEP
RatesHeld(native) ==
    { native,
      RATE_MIN + ((native - RATE_MIN) % RATE_STEP),
      RATE_MIN + ((native - RATE_MIN) % RATE_STEP) + RATE_STEP,
      RATE_MAX - ((RATE_MAX - native) % RATE_STEP),
      RATE_MAX - ((RATE_MAX - native) % RATE_STEP) - RATE_STEP }

RatePads ==
    { [stat |-> 0, btn |-> {}] }
        \cup { [stat |-> 0, btn |-> {b}] : b \in {"UP", "DOWN", "CROSS"} }

\* the audio test playing TRACK-1.VAG, after UP or DOWN has been held for
\* some frames
RateInit ==
    \E native \in RateNatives : \E rate \in RatesHeld(native) :
        LET S0 == setup_context(InitState(OneTrackDisc(0, FileRate(native)), "handle"))
            S1 == setup_stream([S0 EXCEPT !.loadedTracks[0] = TRUE], 0, FileRate(native))
            S2 == InitAudioTest([S1 EXCEPT !.load_i = MAX_SONGS,
                                           !.sampleRate[0] = S1.read_ctx[0].sample_rate,
                                           !.curMode = AUDIO_TEST,
                                           !.curMenuChoice = AUDIO_TEST,
                                           !.isInMenu = 0])
        IN  Start(Stream_SetSampleRate([S2 EXCEPT !.sampleRate[0] = rate], 0, rate))

RHandle ==
    /\ pc = "handle"
    /\ frame < MaxRateFrames
    /\ \E pad \in RatePads :
          Commit([HandleCommands(St, pad.stat, pad.btn) EXCEPT
                      !.pc = "draw", !.frame = @ + 1])

RateNext ==
    \/ RHandle
    \/ Draw
    \/ Flip
    \/ CdDone
    \/ SpuIrq

SpecRate == RateInit /\ [][RateNext]_vars

----
\* The track loader over the headers a file can hold

HeaderSizes == { 1, 2047, 2048, 2049, 6144, 100000, 1048576 }
HeaderInterleaves == { 512, 1024, 2048, 24576 }
HeaderChannels == { 0, 1, 2, 3 }

HeaderInit ==
    \E size \in HeaderSizes, interleave \in HeaderInterleaves, channels \in HeaderChannels :
        InitWith(OneTrackDisc(0, VagFile(100, size, interleave, channels, 44100)),
                 "load_search")

HeaderNext ==
    \/ LoadSearch
    \/ LoadFlip
    \/ LoadSetup
    \/ LoadPrefill

SpecHeader == HeaderInit /\ [][HeaderNext]_vars

----
\* Properties of the render context

\* a step that hands a chain to the GPU: only flip_buffers does (DrawOTag2)
FlipStep == ~gpu_busy /\ gpu_busy'

\* C2: the active buffer index starts at 0 after setup_context and every
\* flip_buffers call toggles it (0,1,0,1,...), nothing else changes it; when
\* flip_buffers returns, the allocation cursor is at offset 0 of the newly
\* active buffer's arena and every entry of that buffer's ordering table is
\* empty, so the next new_primitive or draw_text finds it so.
C2_FlipAlternatesAndResets ==
    /\ active_buffer = 0
    /\ [][ /\ FlipStep =>
                /\ active_buffer' = 1 - active_buffer
                /\ next_packet' = [buf |-> active_buffer', off |-> 0]
                /\ ot'[active_buffer'] = EmptyOT
           /\ ~FlipStep => active_buffer' = active_buffer ]_vars

\* C2 witness: a second flip has made buffer 0 active again, buffer 1 holding
\* the frame just handed to the GPU
C2_Witness ==
    /\ pc = "render"
    /\ op = "flip"
    /\ active_buffer = 0
    /\ gpu_chain = 1
    /\ ot[1] # EmptyOT
    /\ ot[0] = EmptyOT

\* C3: as long as the sizes requested since the last flip sum to at most
\* BUFFER_LENGTH bytes, the capacity assert has not tripped and the cursor
\* stands at the arena start plus that sum.
C3_CursorIsSumOfSizes ==
    requested <= BUFFER_LENGTH =>
        /\ pc # "abort"
        /\ next_packet = [buf |-> active_buffer, off |-> requested]

\* C3 witness: allocations since the last flip fill the arena exactly
C3_Witness ==
    /\ pc = "render"
    /\ op = "alloc"
    /\ requested = BUFFER_LENGTH
    /\ next_packet = [buf |-> active_buffer, off |-> BUFFER_LENGTH]
    /\ gpu_chain # NoBuf

\* C4: no primitive is written outside the active buffer's arena; an
\* allocation that would pass the end is stopped by the assert before any
\* byte of it is written.
C4_NoWriteOutsideArena == ~wrote_outside

----
\* Properties of the stream read scheduler in the running program

\* the Draw step of a frame of the audio test: DrawAudioTest polls the
\* scheduler of the current track once
AudioPollStep == pc = "draw" /\ pc' # "draw" /\ isInMenu = 0 /\ curMode = AUDIO_TEST

\* C1: at most one drive read is outstanding at any time; a poll made while
\* the drive still reports the previous read as busy returns true, issues no
\* second CdRead and leaves every track's next sector and pending length and
\* every feeder unchanged.
C1_OneReadOutstanding ==
    [][ /\ Len(cd_reads') <= 1
        /\ (AudioPollStep /\ Len(cd_reads) > 0) =>
               /\ buffering'
               /\ cd_reads' = cd_reads
               /\ read_ctx' = read_ctx
               /\ stream_ctx' = stream_ctx ]_vars

\* C1 witness: the frame's poll found the drive busy with a read issued for
\* the track that was current before the track switch
C1_Witness ==
    /\ pc = "flip"
    /\ curMode = AUDIO_TEST
    /\ isInMenu = 0
    /\ Len(cd_reads) = 1
    /\ cd_reads[1].ctx # currentTrackIndex
    /\ buffering

\* C8: when setup_stream has returned for a track (before the main loop
\* begins), the pre-fill has filled that track's own feeder: its free space
\* is below the refill threshold and its next sector has advanced by the
\* sectors read.
C8_PrefillFillsOwnFeeder ==
    \A i \in Tracks :
        (frame = 0 /\ pc # "load_setup" /\ pc # "load_prefill"
              /\ loadedTracks[i] /\ load_i > i) =>
            /\ Stream_GetRefillLength(stream_ctx[i]) < REFILL_THRESHOLD * SECTOR_SIZE
            /\ read_ctx[i].next_sector * SECTOR_SIZE = stream_ctx[i].length

\* C9 as stated: while the current track is paused, a poll issues no read and
\* the track's next sector stays where it is.
C9_NoReadWhilePaused ==
    [][ (AudioPollStep /\ pausedTracks[currentTrackIndex]) =>
            /\ cd_reads' = cd_reads
            /\ read_ctx'[currentTrackIndex].next_sector
                   = read_ctx[currentTrackIndex].next_sector ]_vars

\* C9: pausing does not stop the polls. While the current track is paused, the
\* frame's poll issues a read for it, and moves its next sector to the end of
\* that read, exactly when the drive is idle and its feeder has at least the
\* refill threshold free; otherwise the poll issues nothing and leaves the
\* scheduler as it was.
C9_PausedPollStillRefills ==
    [][ (AudioPollStep /\ pausedTracks[currentTrackIndex]) =>
            LET c == currentTrackIndex
                due == /\ Len(cd_reads) = 0
                       /\ Stream_GetRefillLength(stream_ctx[c])
                              >= REFILL_THRESHOLD * SECTOR_SIZE
            IN  /\ due =>
                     \/ pc' = "hang"
                     \/ /\ Len(cd_reads') = 1
                        /\ cd_reads'[1].ctx = c
                        /\ read_ctx'[c].next_sector =
                               (cd_reads'[1].lba - read_ctx[c].start_lba) + cd_reads'[1].len
                /\ ~due => cd_reads' = cd_reads /\ read_ctx' = read_ctx ]_vars

\* C9 witness: in the frame of the pause the first read has been fed and the
\* poll of the paused track has issued the next one
C9_Witness ==
    /\ pc = "flip"
    /\ frame = 5
    /\ curMode = AUDIO_TEST
    /\ isInMenu = 0
    /\ pausedTracks[currentTrackIndex]
    /\ active_ctx = NoCtx
    /\ stream_ctx[currentTrackIndex].length > 0
    /\ Len(cd_reads) = 1
    /\ cd_reads[1].ctx = currentTrackIndex

\* C10: a track whose file was not found is never started and no read is
\* issued on its behalf.
C10_UnloadedNeverStarted ==
    /\ active_ctx \in Tracks => loadedTracks[active_ctx]
    /\ \A k \in 1 .. Len(cd_reads) : loadedTracks[cd_reads[k].ctx]

----
\* Properties of the scheduler of one track

\* a poll of the scheduler
FeedPollStep == pc = "feed" /\ frame' = frame + 1

\* what the poll finds: the bytes free in the feeder, the sectors that can
\* be written at its write pointer in one piece, the sector the read starts
\* at once the cursor is brought back into the track, and the sectors from
\* there to the end of the track
FeedFree == stream_ctx[currentTrackIndex].buffer_size - stream_ctx[currentTrackIndex].length
FeedCapacity ==
    Min(FeedFree, stream_ctx[currentTrackIndex].buffer_size
                      - stream_ctx[currentTrackIndex].tail) \div SECTOR_SIZE
FeedPosition ==
    LET rc == read_ctx[currentTrackIndex]
    IN  IF rc.next_sector >= rc.stream_length
        THEN rc.next_sector % rc.stream_length ELSE rc.next_sector
FeedRemaining == read_ctx[currentTrackIndex].stream_length - FeedPosition

\* C5: with the drive idle, a poll that finds fewer than 24 sectors free
\* returns false, issues no read and leaves the scheduler and the feeder as
\* they were; a poll that finds 24 sectors or more free returns true and
\* issues exactly one read, of min(write capacity of the feeder in sectors,
\* sectors remaining until the end of the track) sectors.
C5_ThresholdAndReadSize ==
    [][ (FeedPollStep /\ Len(cd_reads) = 0) =>
            /\ FeedFree < REFILL_THRESHOLD * SECTOR_SIZE =>
                   /\ ~buffering'
                   /\ cd_reads' = cd_reads
                   /\ read_ctx' = read_ctx
                   /\ stream_ctx' = stream_ctx
            /\ FeedFree >= REFILL_THRESHOLD * SECTOR_SIZE =>
                   /\ buffering'
                   /\ Len(cd_reads') = 1
                   /\ cd_reads'[1].len = Min(FeedCapacity, FeedRemaining) ]_vars

\* C5 witness: the first poll found 25 sectors free with the drive idle and
\* issued one read
C5_Witness ==
    /\ pc = "feed"
    /\ frame = 1
    /\ stream_ctx[0].length = (48 - 25) * SECTOR_SIZE
    /\ buffering
    /\ Len(cd_reads) = 1
    /\ cd_reads[1].len > 0

\* C6: a read that would run past the end of the track is cut to the sectors
\* that remain and leaves the cursor at the track length; a poll that issues
\* a read with the cursor at or past the track length first brings it back
\* by the track length, so from the track length the read starts at the
\* first sector of the track.
C6_CapAtEndThenWrap ==
    [][ (FeedPollStep /\ Len(cd_reads') = Len(cd_reads) + 1) =>
            LET rc   == read_ctx[currentTrackIndex]
                read == cd_reads'[Len(cd_reads')]
                next == read_ctx'[currentTrackIndex].next_sector
            IN  /\ (rc.next_sector >= 0 /\ rc.next_sector < rc.stream_length
                       /\ rc.next_sector + FeedCapacity > rc.stream_length) =>
                       /\ read.lba = rc.start_lba + rc.next_sector
                       /\ read.len = rc.stream_length - rc.next_sector
                       /\ next = rc.stream_length
                /\ rc.next_sector = rc.stream_length =>
                       /\ read.lba = rc.start_lba
                       /\ next = read.len ]_vars

\* C6 witness: from sector 95 of 100 with room for 10, 5 sectors were read
\* and fed, and the next poll has issued a read from the first sector
C6_Witness ==
    /\ pc = "feed"
    /\ frame = 2
    /\ read_ctx[0].stream_length = 100
    /\ stream_ctx[0].length = 5 * SECTOR_SIZE
    /\ stream_ctx[0].tail = (38 + 5) * SECTOR_SIZE
    /\ Len(cd_reads) = 1
    /\ cd_reads[1].lba = read_ctx[0].start_lba
    /\ read_ctx[0].next_sector = cd_reads[1].len

----
\* Properties of the track loader

\* the least n with n * b >= a, for a >= 0 and b > 0
CeilDiv(a, b) == IF (a \div b) * b = a THEN a \div b ELSE (a \div b) + 1

\* the sector length of track i is ceil(C * ceil(S / I) * I / 2048), and the
\* header of S = 1048576, I = 2048, C = 2 gives 512 chunks and n sectors
HeaderLengthIs(i, n) ==
    LET vag == disc[i]
        C == IF vag.channels = 0 THEN 2 ELSE vag.channels
        chunks == CeilDiv(vag.size, vag.interleave)
    IN  /\ read_ctx[i].stream_length = CeilDiv(C * chunks * vag.interleave, SECTOR_SIZE)
        /\ (vag.size = 1048576 /\ vag.interleave = 2048 /\ C = 2) =>
               /\ chunks = 512
               /\ read_ctx[i].stream_length = n

\* setup_stream has set up the read context of track i
SetupDone(i) == loadedTracks[i] /\ (load_i > i \/ (load_i = i /\ pc = "load_prefill"))

\* C7 as stated: the sector length is ceil(C * ceil(S / I) * I / 2048) with
\* C = 2 for a channel field of 0, and S = 1048576, I = 2048, C = 2 gives 512
\* chunks and a sector length of 512.
C7_SectorLengthExample512 ==
    \A i \in Tracks : SetupDone(i) => HeaderLengthIs(i, 512)

\* C7: the sector length is ceil(C * ceil(S / I) * I / 2048) with C = 2 for a
\* channel field of 0, and S = 1048576, I = 2048, C = 2 gives 512 chunks and
\* a sector length of 1024.
C7_SectorLength ==
    \A i \in Tracks : SetupDone(i) => HeaderLengthIs(i, 1024)

\* C7 witness: the header of the example has been read, with channel field 0
C7_Witness ==
    /\ SetupDone(0)
    /\ disc[0].size = 1048576
    /\ disc[0].interleave = 2048
    /\ disc[0].channels = 0
    /\ read_ctx[0].stream_length = 1024

----
\* Termination of the poll

\* C11: a call of feed_stream always returns: the program is never left
\* inside the wrap loop of feed_stream.
C11_PollNeverBlocks == pc # "hang"

----
\* Properties of the chain handed to the GPU

\* the chain DrawOTagEnv was last given, in the order the GPU draws it (the
\* buffer it was built in is left alone until the next flip)
SubmittedChain == Traverse(ot[gpu_chain], gpu_start)

\* a frame has just been handed to the GPU
Submitted == pc = "render" /\ op = "flip" /\ gpu_chain # NoBuf

\* the bucket primitive p of the submitted frame was allocated into
BucketOf(p) ==
    CHOOSE z \in 0 .. (OT_LENGTH - 1) :
        \E k \in 1 .. Len(ot[gpu_chain][z]) : ot[gpu_chain][z][k] = p

\* C12: every primitive allocated in the frame is in the chain handed to the
\* GPU, and a primitive of a higher bucket comes before every primitive of a
\* lower bucket whatever the order they were allocated in: the traversal
\* starts at bucket OT_LENGTH - 1 and ends with bucket 0.
C12_HigherBucketFirst ==
    Submitted =>
        /\ \A z \in 0 .. (OT_LENGTH - 1) : \A k \in 1 .. Len(ot[gpu_chain][z]) :
               \E i \in 1 .. Len(SubmittedChain) : SubmittedChain[i] = ot[gpu_chain][z][k]
        /\ \A i, j \in 1 .. Len(SubmittedChain) :
               i < j => BucketOf(SubmittedChain[i]) >= BucketOf(SubmittedChain[j])

\* C12 witness: in the submitted chain a primitive of a higher bucket that
\* was allocated later comes before one of a lower bucket
C12_Witness ==
    /\ Submitted
    /\ \E i, j \in 1 .. Len(SubmittedChain) :
           /\ i < j
           /\ BucketOf(SubmittedChain[i]) > BucketOf(SubmittedChain[j])
           /\ SubmittedChain[i].off > SubmittedChain[j].off

\* two primitives of the submitted chain that share a bucket, the one at i
\* drawn before the one at j
SameBucketPair(i, j) ==
    /\ i < j
    /\ BucketOf(SubmittedChain[i]) = BucketOf(SubmittedChain[j])

\* C13 as stated: primitives of one bucket are drawn in allocation order, the
\* first allocated first.
C13_AllocationOrder ==
    Submitted =>
        \A i, j \in 1 .. Len(SubmittedChain) :
            SameBucketPair(i, j) => SubmittedChain[i].off < SubmittedChain[j].off

\* C13: primitives of one bucket are drawn in the reverse of their allocation
\* order: the last allocated comes first in the chain and the first
\* allocated is drawn last, over the others.
C13_ReverseAllocationOrder ==
    Submitted =>
        \A i, j \in 1 .. Len(SubmittedChain) :
            SameBucketPair(i, j) => SubmittedChain[i].off > SubmittedChain[j].off

\* C13 witness: a submitted chain with two new_primitive allocations in one bucket
C13_Witness ==
    /\ Submitted
    /\ Len(ot[gpu_chain][0]) = 2
    /\ ot[gpu_chain][0][1].off = SIZEOF_TILE
    /\ ot[gpu_chain][0][2].off = 0

----
\* Properties of read completion

\* the drive has finished its oldest read with the given event and the read
\* callback has run
CompletionStep(event) == Len(cd_reads') < Len(cd_reads) /\ op' = event

\* C14: a read that ends with a disk error gives the feeder nothing and is
\* retried: the cursor of the track is back at the first sector of the failed
\* read, so that the next poll that issues a read asks for those sectors again.
C14_FailedReadRetried ==
    [][ (CompletionStep(CdlDiskError) /\ cd_reads[1].len > 0) =>
            LET c == cd_reads[1].ctx
            IN  /\ stream_ctx' = stream_ctx
                /\ read_ctx'[c].next_sector = cd_reads[1].lba - read_ctx[c].start_lba ]_vars

\* C15: when a read completes without error, the feeder of the track that
\* issued it, and no other, gains 2048 bytes for each sector of that read.
C15_CompletionFeedsIssuer ==
    [][ CompletionStep(CdlComplete) =>
            \A c \in Ctxs :
                stream_ctx'[c].length =
                    stream_ctx[c].length
                        + (IF c = cd_reads[1].ctx THEN cd_reads[1].len * SECTOR_SIZE ELSE 0) ]_vars

----
\* Where the reads fall

\* C16: every read in the drive's queue lies inside the track it was issued
\* for: it starts at a sector offset in [0, stream_length) from start_lba and
\* ends at or before the end of the track.
C16_ReadInsideTrack ==
    \A k \in 1 .. Len(cd_reads) :
        LET rc     == read_ctx[cd_reads[k].ctx]
            offset == cd_reads[k].lba - rc.start_lba
        IN  /\ 0 <= offset
            /\ offset < rc.stream_length
            /\ offset + cd_reads[k].len <= rc.stream_length

----
\* The pending length of a track

\* C17 as stated: while no read is outstanding, the pending length
\* (refill_length) of every track is 0.
C17_PendingZeroWhenIdle ==
    Len(cd_reads) = 0 => \A c \in Ctxs : read_ctx[c].refill_length = 0

\* C17: refill_length of a track is the sector count of the last read issued
\* for it, 0 if none was issued since setup_stream. It changes only when
\* setup_stream sets it to 0 and when a poll issues a read for the track; a
\* completion and a poll that finds the drive idle leave it as it is.
C17_PendingIsLastReadLength ==
    [][ \A c \in Ctxs :
            read_ctx'[c].refill_length # read_ctx[c].refill_length =>
                \/ /\ pc = "load_setup"
                   /\ c = load_i
                   /\ read_ctx'[c].refill_length = 0
                \/ /\ Len(cd_reads') = Len(cd_reads) + 1
                   /\ cd_reads'[Len(cd_reads')].ctx = c
                   /\ read_ctx'[c].refill_length = cd_reads'[Len(cd_reads')].len ]_vars

\* C17 witness: the read of a track has completed, none is outstanding and the
\* pending length of the track is still the length of that read
C17_Witness ==
    /\ op = CdlComplete
    /\ Len(cd_reads) = 0
    /\ read_ctx[currentTrackIndex].refill_length > 0
    /\ stream_ctx[currentTrackIndex].length
           = read_ctx[currentTrackIndex].refill_length * SECTOR_SIZE

----
\* Properties of the hand-over between CPU and GPU

\* C18: the CPU never resets or links into the ordering table of a buffer
\* while the GPU is still consuming the chain built in that buffer, and while
\* a chain is in flight the buffer being allocated into is the other one.
C18_NoReuseWhileInFlight ==
    [][ /\ \A b \in Buffers : ot'[b] # ot[b] => ~(gpu_busy /\ gpu_chain = b)
        /\ gpu_busy' => gpu_chain' # active_buffer' ]_vars

\* C18 witness: the CPU has allocated into one buffer while the GPU is still
\* consuming the chain of the other
C18_Witness ==
    /\ pc = "render"
    /\ op = "alloc"
    /\ gpu_busy
    /\ gpu_chain = 1 - active_buffer
    /\ ot[gpu_chain] # EmptyOT
    /\ ot[active_buffer] # EmptyOT

\* C19 as stated: a flip makes visible the region of the buffer that was
\* active when it was called and hands the GPU the chain of the other buffer.
C19_ShowsActiveDrawsOther ==
    [][ FlipStep => /\ disp_region' = active_buffer
                    /\ gpu_chain' = 1 - active_buffer ]_vars

\* C19: a flip makes visible the region of the other buffer (the one drawn
\* in the frame before) and hands the GPU the chain built in the buffer that
\* was active when it was called, to be drawn into that buffer's region.
C19_ShowsOtherDrawsActive ==
    [][ FlipStep => /\ disp_region' = 1 - active_buffer
                    /\ gpu_chain' = active_buffer
                    /\ draw_target' = active_buffer ]_vars

\* C19 witness: after a flip called with buffer 0 active, region 1 is
\* visible and the GPU draws the chain of buffer 0 into region 0
C19_Witness ==
    /\ pc = "render"
    /\ op = "flip"
    /\ active_buffer = 1
    /\ disp_region = 1
    /\ gpu_chain = 0
    /\ draw_target = 0
    /\ gpu_busy
    /\ ot[0] # EmptyOT

\* the step of HandleMenuCommands in which CROSS closes the menu on the
\* given choice
MenuPick(choice) ==
    /\ pc = "handle" /\ pc' = "draw"
    /\ isInMenu = 1 /\ isInMenu' = 0
    /\ curMenuChoice = choice

NextSectors == [i \in Tracks |-> read_ctx[i].next_sector]

\* C20: choosing the audio test in the menu (InitAudioTest) sets every
\* track's next_sector to 0, clears every track's paused flag and makes
\* START_TRACK the current track; leaving the menu with BACK changes none
\* of the three, nor the mode.
C20_RestartResetsBackKeeps ==
    [][ /\ MenuPick(AUDIO_TEST) =>
             /\ curMode' = AUDIO_TEST
             /\ currentTrackIndex' = START_TRACK
             /\ \A i \in Tracks : read_ctx'[i].next_sector = 0 /\ ~pausedTracks'[i]
        /\ MenuPick(BACK_CHOICE) =>
             /\ curMode' = curMode
             /\ currentTrackIndex' = currentTrackIndex
             /\ pausedTracks' = pausedTracks
             /\ NextSectors' = NextSectors ]_vars

\* the audio test was restarted from the menu over a track that had been
\* read from: its cursor is back at 0 while the length of its last read and
\* the data in its feeder are still there
C20_Witness ==
    /\ pc = "draw" /\ frame = 1 /\ lastButtons = {"CROSS"}
    /\ isInMenu = 0 /\ curMode = AUDIO_TEST /\ curMenuChoice = AUDIO_TEST
    /\ currentTrackIndex = START_TRACK
    /\ read_ctx[1].refill_length > 0 /\ stream_ctx[1].length > 0
    /\ \A i \in Tracks : read_ctx[i].next_sector = 0 /\ ~pausedTracks[i]

\* the menu was left with BACK over a paused audio test on another track
C20_WitnessBack ==
    /\ pc = "draw" /\ frame = 1 /\ lastButtons = {"CROSS"}
    /\ isInMenu = 0 /\ curMode = AUDIO_TEST /\ curMenuChoice = BACK_CHOICE
    /\ currentTrackIndex = 1 /\ pausedTracks[1]
    /\ read_ctx[1].next_sector > 0

\* C21: no caller in any mode links a primitive to an entry outside the
\* ordering table (0 <= z < OT_LENGTH for every new_primitive and draw_text),
\* and the entry a flip hands to the GPU is the last entry of the table.
C21_BucketsInTable ==
    /\ ~ot_outside
    /\ gpu_chain # NoBuf =>
           /\ gpu_start \in DOMAIN ot[gpu_chain]
           /\ gpu_start + 1 \notin DOMAIN ot[gpu_chain]

\* the stress test has linked its first rectangle to entry 1 and its last to
\* the last entry of the table, and the frame has been flipped
C21_Witness ==
    /\ pc = "handle" /\ op = "flip" /\ curMode = STRESS_TEST
    /\ gpu_chain # NoBuf
    /\ Len(ot[gpu_chain][OT_LENGTH - 1]) = 1
    /\ Len(ot[gpu_chain][1]) = 1
    /\ ~ot_outside

\* two VRAM rectangles have a pixel in common
Overlap(r1, r2) ==
    /\ r1.x < r2.x + r2.w /\ r2.x < r1.x + r1.w
    /\ r1.y < r2.y + r2.h /\ r2.y < r1.y + r1.h

\* C22: from the first flip on, the rectangle made visible by PutDispEnv and
\* the rectangle the GPU draws into belong to different buffers and have no
\* pixel in common, and every later flip exchanges the two.
C22_DisplayedNotDrawn ==
    /\ [](gpu_chain # NoBuf =>
             /\ disp_region # draw_target
             /\ ~Overlap(disp_env(disp_region), draw_env(draw_target)))
    /\ [][ FlipStep /\ gpu_chain # NoBuf =>
             /\ disp_env(disp_region') = draw_env(draw_target)
             /\ draw_env(draw_target') = disp_env(disp_region) ]_vars

\* C22 witness: after a second flip the GPU is drawing a frame with a
\* primitive into the rectangle at the top of VRAM while the display shows
\* the one below it
C22_Witness ==
    /\ pc = "render" /\ gpu_busy /\ active_buffer = 0
    /\ gpu_chain = 1 /\ ot[1] # EmptyOT
    /\ draw_env(draw_target).y = SCREEN_YRES
    /\ disp_env(disp_region).y = 0

\* C23: a stream is playing only while the audio test is the current mode,
\* the menu is closed and the current track is not paused.
C23_PlaysOnlyInOpenAudioTest ==
    active_ctx # NoCtx =>
        /\ curMode = AUDIO_TEST
        /\ isInMenu = 0
        /\ ~pausedTracks[currentTrackIndex]

RefillLengths == [i \in Tracks |-> read_ctx[i].refill_length]

\* the rate of every loaded track whose native rate is within
\* RATE_MIN .. RATE_MAX is within RATE_MIN .. RATE_MAX
RatesInRange ==
    \A i \in Tracks :
        (loadedTracks[i] /\ read_ctx[i].sample_rate \in RATE_MIN .. RATE_MAX)
            => sampleRate[i] \in RATE_MIN .. RATE_MAX

\* C24: the playback rate of a track whose native rate is within
\* 11000 .. 88200 Hz stays within 11000 .. 88200 Hz under UP, DOWN and X,
\* and a step that changes a rate changes no next_sector and no
\* refill_length.
C24_RateStaysInRange ==
    /\ []RatesInRange
    /\ [][ sampleRate' # sampleRate =>
              /\ NextSectors' = NextSectors
              /\ RefillLengths' = RefillLengths ]_vars

====
